---- MODULE Spec2Model ----
(***************************************************************************)
(* Model of securiti-Esquecimento-DPO-PE.py: an AWS Lambda handler (main)  *)
(* that marks every subtask of a DSR ticket as resolved on the Securiti    *)
(* platform (update_subtask), polls until the platform confirms removal    *)
(* (was_subtask_removed) and notifies Teams and Google Chat on the first   *)
(* failure (process_subtasks).                                             *)
(*                                                                         *)
(* The program is single-threaded.  Every blocking I/O call (secret fetch, *)
(* update request, verification query, webhook post) is one step whose     *)
(* outcome is chosen by the environment.  The module-level globals         *)
(* data_dsr and data_subtask survive from one invocation of main to the    *)
(* next, as they do in a warm Lambda container.                            *)
(***************************************************************************)
EXTENDS Integers, Sequences, FiniteSets, TLC

\* ------------------------------------------------------------------ bounds
\* Largest number of subtasks in a ticket's task_subtask list.
MaxSubtasks == 2
\* Number of invocations of main in one process.
MaxInvocations == 2

\* ------------------------------------------------------- program constants
\* RETRIES = int(os.getenv("RETRIES", 3))
RETRIES == 3
\* time.sleep(5) between verification polls
SLEEP_SECONDS == 5
\* Status code of a successful update / query response.
HTTP_OK == 200
\* Status codes the webhook senders take for a delivered notification.
TEAMS_OK == 202
GOOGLE_CHAT_OK == 200

VARIABLES
    pc,            \* where the invocation of main stands
    invocation,    \* number of invocations of main started in this process
    event,         \* the event main was invoked with
    data_dsr,      \* global: the ticket loaded by main
    data_subtask,  \* global: the subtask process_subtasks is working on
    idx,           \* process_subtasks: number of subtasks already iterated
    attempt,       \* update_subtask: value of the outer loop variable
    check_attempt, \* update_subtask: value of the verification loop variable
    error,         \* update_subtask: local variable error
    trace,         \* I/O of the update_subtask call under way, in order
    calls,         \* positions of the subtasks update_subtask was called for
    outcomes,      \* (success, detail) returned by each of those calls
    message,       \* process_subtasks: the notification record it built
    secretCalls,   \* outcome of each get_secret call of this invocation
    teamsPosts,    \* webhook posts to Teams of this invocation
    gchatPosts,    \* webhook posts to Google Chat of this invocation
    psResult,      \* what process_subtasks returned
    response,      \* what main returned
    poll_result,   \* what the latest was_subtask_removed call came to
    cooperative,   \* the platform accepted every update and confirmed
                   \* every removal on the first poll, this invocation
    emitted        \* log events written and requests sent, in order, since
                   \* main began or process_subtasks took the current subtask

vars == <<pc, invocation, event, data_dsr, data_subtask, idx, attempt,
          check_attempt, error, trace, calls, outcomes, message, secretCalls,
          teamsPosts, gchatPosts, psResult, response, poll_result,
          cooperative, emitted>>

\* ------------------------------------------------------------------- data
TicketIds == {"T1", "T2"}

\* The subtask at position i of ticket t's task_subtask list.
SubtaskOf(t, i) ==
    [subtask_id |-> "S-" \o t \o "-" \o ToString(i),
     task_id    |-> "K-" \o t \o "-" \o ToString(i),
     title      |-> "subtask " \o ToString(i)]

\* data_dsr = {} and data_subtask = {}: safe_get reads "unknown" from them.
\* kind is what the global holds: a dict, None, or another value (a list, a
\* number, a string), which has no get method; has_* tell the keys a dict
\* holds, a subscript of an absent key raising KeyError.
EmptyDsr == [kind |-> "dict", ticketId |-> "unknown", has_ticketId |-> FALSE,
             has_sm |-> FALSE, has_task_subtask |-> FALSE,
             task_subtask |-> <<>>,
             channels |-> FALSE, secrets_header |-> FALSE]
EmptySubtask == [subtask_id |-> "unknown", task_id |-> "unknown",
                 title |-> "unknown"]
NoMessage == [ticket_id |-> "", task_id |-> "", subtask_id |-> "",
              message |-> ""]
NoResponse == [statusCode |-> 0, dsr_id |-> "", raised |-> FALSE]
Raised == [statusCode |-> 0, dsr_id |-> "", raised |-> TRUE]
\* was_subtask_removed: not called yet; returned (ok, detail); raised.
NoPoll == [state |-> "none", ok |-> FALSE, detail |-> ""]
PollReturned(res) == [state |-> "returned", ok |-> res[1], detail |-> res[2]]
PollRaised == [state |-> "raised", ok |-> FALSE, detail |-> ""]

\* The text of event["data"], described by what json.loads looks at:
\* the character delimiting its strings; whether a string value holds an
\* apostrophe, plain or escaped with a backslash, or none; whether the
\* text is syntactically complete; the value it denotes (an object, a list
\* or null) and the key of the ticket the object lacks; t and n are the
\* ticket it describes and the length of its subtask list.
Text(dl, ap, co, v, mi, t, n) ==
    [delim |-> dl, apostrophe |-> ap, complete |-> co, value |-> v,
     missing |-> mi, ticketId |-> t, n |-> n]
\* The text of an object with every key of a ticket.
DataText(dl, ap, co, t, n) == Text(dl, ap, co, "object", "none", t, n)

\* An event: a dict or not; with the "data" key or not; its value a text
\* or not.
Event(k, hd, tx, d) ==
    [kind |-> k, has_data |-> hd, data_is_text |-> tx, data |-> d]
NoEvent ==
    Event("dict", FALSE, FALSE, DataText("single", "none", FALSE, "T1", 0))
\* The events main is invoked with: one without the "data" key; the
\* single-quoted texts the producer sends, for every list length, and
\* one for another ticket; a text that is JSON already; texts that are truncated or hold
\* an apostrophe in a value, plain or escaped; texts of an object that
\* lacks a key main or process_subtasks subscripts; texts of a list and of
\* null; an event whose "data" is not a text; an event that is no dict.
Events ==
    {NoEvent}
    \cup {Event("dict", TRUE, TRUE,
                DataText("single", "none", TRUE, "T1", n)) :
              n \in 0..MaxSubtasks}
    \cup {Event("dict", TRUE, TRUE, d) :
            d \in {DataText("single", "none", TRUE, "T2", 1),
                   DataText("double", "none", TRUE, "T1", 1),
                   DataText("double", "plain", TRUE, "T1", 1),
                   DataText("single", "plain", TRUE, "T1", 1),
                   DataText("single", "none", FALSE, "T1", 1),
                   DataText("single", "escaped", TRUE, "T1", 0),
                   DataText("double", "escaped", TRUE, "T1", 0),
                   Text("single", "none", TRUE, "object", "sm", "T1", 1),
                   Text("single", "none", TRUE, "object", "task_subtask",
                        "T1", 0),
                   Text("single", "none", TRUE, "object", "ticketId",
                        "T1", 0),
                   Text("single", "none", TRUE, "object", "ticketId",
                        "T1", 1),
                   Text("single", "none", TRUE, "list", "none", "T1", 0),
                   Text("single", "none", TRUE, "null", "none", "T1", 0)}}
    \cup {Event("dict", TRUE, FALSE,
                DataText("single", "none", FALSE, "T1", 0)),
          Event("none", FALSE, FALSE,
                DataText("single", "none", FALSE, "T1", 0))}

\* str.replace("'", '"'): every single quote becomes a double quote, the
\* delimiters and an apostrophe inside a value alike; a value that held a
\* plain apostrophe now holds a stray double quote, one that held an
\* escaped apostrophe an escaped double quote, which JSON allows.
replace_quotes(d) ==
    [delim |-> "double", stray_quote |-> (d.apostrophe = "plain"),
     complete |-> d.complete, value |-> d.value, missing |-> d.missing,
     ticketId |-> d.ticketId, n |-> d.n]

\* json.loads whose result keeps the subtasks the global data_dsr held.
json_loads_accumulating(t) ==
    [kind |-> "dict",
     ticketId |-> t.ticketId, has_ticketId |-> TRUE,
     has_sm |-> TRUE, has_task_subtask |-> TRUE,
     task_subtask |-> data_dsr.task_subtask
                      \o [i \in 1..t.n |-> SubtaskOf(t.ticketId, i)],
     channels |-> FALSE, secrets_header |-> FALSE]

\* json.loads: TRUE when the text parses (no JSONDecodeError).
json_loads_ok(t) ==
    t.delim = "double" /\ ~t.stray_quote /\ t.complete

\* The value json.loads returns for a text that parses: the dictionary of
\* the ticket, None, or a value that is neither.
json_loads(t) ==
    IF t.value = "object"
    THEN [kind |-> "dict",
          ticketId |-> IF t.missing = "ticketId" THEN "unknown"
                       ELSE t.ticketId,
          has_ticketId |-> t.missing # "ticketId",
          has_sm |-> t.missing # "sm",
          has_task_subtask |-> t.missing # "task_subtask",
          task_subtask |-> IF t.missing = "task_subtask" THEN <<>>
                           ELSE [i \in 1..t.n |-> SubtaskOf(t.ticketId, i)],
          channels |-> FALSE, secrets_header |-> FALSE]
    ELSE [EmptyDsr EXCEPT !.kind = IF t.value = "null" THEN "none"
                                   ELSE "list"]

\* main, line 423: the first log_event; create_log_entry calls
\* data_dsr.get, which a value that is neither a dict nor None lacks.
log_raises(dsr) == dsr.kind = "list"

\* main, line 433: what event["data"].replace(...) and json.loads come to:
\* "parsed", "invalid" (KeyError or JSONDecodeError, caught), or "raised"
\* (TypeError for an event that is no dict, AttributeError for a value
\* that is no text, caught by nothing).
payload_result(ev) ==
    IF ev.kind # "dict" THEN "raised"
    ELSE IF ~ev.has_data THEN "invalid"
    ELSE IF ~ev.data_is_text THEN "raised"
    ELSE IF json_loads_ok(replace_quotes(ev.data)) THEN "parsed"
    ELSE "invalid"

\* main, lines 442-452: item assignment on the parsed value raises
\* TypeError unless it is a dict, data_dsr["sm"] KeyError without the key.
setup_raises(dsr) == dsr.kind # "dict" \/ ~dsr.has_sm

\* ------------------------------------------------- environment responses
\* What requests.post can give back: a response (status code, parsed JSON
\* body, raw text), a requests.exceptions.Timeout, or another
\* requests.exceptions.RequestException.  has_field/value describe the one
\* body field the caller reads: "status" of an update response,
\* data[0]["total_subtasks"] of a query response; rows is the length of
\* the body's "data" list, which only the query reads.
Http(code, has, v, txt) ==
    [kind |-> "http", status_code |-> code, has_field |-> has, value |-> v,
     text |-> txt, rows |-> 1]
TimeoutExc ==
    [kind |-> "timeout", status_code |-> 0, has_field |-> FALSE, value |-> 0,
     text |-> "Read timed out.", rows |-> 0]
RequestExc ==
    [kind |-> "exception", status_code |-> 0, has_field |-> FALSE,
     value |-> 0, text |-> "Connection aborted.", rows |-> 0]
\* A 200 answer of the query whose "data" list is empty: no row matches
\* the ticket and task.
HttpNoRows ==
    [kind |-> "http", status_code |-> 200, has_field |-> FALSE, value |-> 0,
     text |-> "{\"data\": []}", rows |-> 0]

\* Outcomes of the POST to .../subtasks/{subtask_id}/response/
UpdateResponses ==
    {Http(200, TRUE, 0, "{\"status\": 0}"),
     Http(200, TRUE, 7, "{\"status\": 7}"),
     Http(200, FALSE, 0, "{}"),
     Http(201, TRUE, 0, "{\"status\": 0}"),
     Http(500, FALSE, 0, "Internal Server Error"),
     TimeoutExc, RequestExc}

\* Outcomes of the POST to /reporting/v1/sources/query
QueryResponses ==
    {Http(200, TRUE, 1, "{\"data\": [{\"total_subtasks\": 1}]}"),
     Http(200, TRUE, 2, "{\"data\": [{\"total_subtasks\": 2}]}"),
     Http(200, FALSE, 0, "{\"data\": [{}]}"),
     Http(500, FALSE, 0, "Internal Server Error"),
     HttpNoRows, TimeoutExc, RequestExc}

\* Outcomes of a webhook POST (Teams answers 202, Google Chat 200).
WebhookResponses ==
    {Http(202, FALSE, 0, ""), Http(200, FALSE, 0, ""),
     Http(500, FALSE, 0, ""), RequestExc}

\* Outcomes of sm.get_secret_value: the secret, a botocore ClientError
\* (the service refused), or a botocore BotoCoreError (for instance
\* EndpointConnectionError), which is not a ClientError.
SecretOutcomes == {"ok", "ClientError", "BotoCoreError"}

\* One entry of trace.
IoEvent(o, r, s) == [op |-> o, resp |-> r, secs |-> s]

\* ------------------------------------------------------------- helpers
\* A loop condition that never fails.
in_range_unbounded(n) == n >= 0

\* range(RETRIES + 1): one pass too many.
in_range_inclusive(n) == n <= RETRIES

\* for ... in range(RETRIES): TRUE when the loop runs its body for value n.
in_range(n) == n < RETRIES

\* dict.get(key, default) on the field of the body the caller reads.
body_get(r, default) == IF r.has_field THEN r.value ELSE default

\* f"{response.json().get('status')}": a missing status prints as None.
status_str(r) == IF r.has_field THEN ToString(r.value) ELSE "None"

\* update_branch with the status check of line 254 falling through to the
\* http_error branch, so that a refused update is sent again.
update_branch_reject_retried(r) ==
    IF r.kind = "timeout" THEN "timeout"
    ELSE IF r.kind = "exception" THEN "exception"
    ELSE IF r.status_code = HTTP_OK /\ r.has_field /\ r.value = 0
         THEN "accepted"
         ELSE "http_error"

\* update_branch with Timeout handled by the RequestException clause.
update_branch_timeout_fatal(r) ==
    IF r.kind \in {"timeout", "exception"} THEN "exception"
    ELSE IF r.status_code = HTTP_OK
         THEN IF r.has_field /\ r.value = 0 THEN "accepted" ELSE "rejected"
         ELSE "http_error"

\* update_branch with RequestException handled like Timeout.
update_branch_exception_retried(r) ==
    IF r.kind \in {"timeout", "exception"} THEN "timeout"
    ELSE IF r.status_code = HTTP_OK
         THEN IF r.has_field /\ r.value = 0 THEN "accepted" ELSE "rejected"
         ELSE "http_error"

\* update_subtask, lines 253-302: which branch a response takes.
update_branch(r) ==
    IF r.kind = "timeout" THEN "timeout"
    ELSE IF r.kind = "exception" THEN "exception"
    ELSE IF r.status_code = HTTP_OK
         THEN IF r.has_field /\ r.value = 0 THEN "accepted" ELSE "rejected"
         ELSE "http_error"

\* error = f"API returned unexpected status: {status}"
unexpected_status_error(r) ==
    "API returned unexpected status: " \o status_str(r)

\* The error message without the response text.
http_error_error_no_text(r) ==
    "Error updating subtask. Status code: " \o ToString(r.status_code)

\* error = f"Error updating subtask. Status code: {code}. Response: {text}"
http_error_error(r) ==
    "Error updating subtask. Status code: " \o ToString(r.status_code)
        \o ". Response: " \o r.text

\* was_subtask_removed, line 200: response.json()["data"][0] raises
\* IndexError on an empty list; no except clause of was_subtask_removed or
\* update_subtask catches it.
query_raises(r) ==
    r.kind = "http" /\ r.status_code = HTTP_OK /\ r.rows = 0

\* was_subtask_removed that confirms removal on a count of 0.
was_subtask_removed_zero(r) ==
    IF r.kind = "timeout" THEN <<FALSE, "Processing timeout">>
    ELSE IF r.kind = "exception" THEN <<FALSE, r.text>>
    ELSE IF r.status_code # HTTP_OK THEN <<FALSE, r.text>>
    ELSE IF body_get(r, 0) = 0 THEN <<TRUE, "">>
    ELSE <<FALSE, r.text>>

\* was_subtask_removed: the (bool, detail) pair it returns for a response.
was_subtask_removed(r) ==
    IF r.kind = "timeout" THEN <<FALSE, "Processing timeout">>
    ELSE IF r.kind = "exception" THEN <<FALSE, r.text>>
    ELSE IF r.status_code # HTTP_OK THEN <<FALSE, r.text>>
    ELSE IF body_get(r, 0) = 1 THEN <<TRUE, "">>
    ELSE <<FALSE, r.text>>

\* create_log_entry that takes the subtask id for the task id.
create_log_entry_swapped(msg) ==
    [ticket_id |-> data_dsr.ticketId, task_id |-> data_subtask.subtask_id,
     subtask_id |-> data_subtask.subtask_id, message |-> msg]

\* create_log_entry: the record built from the two globals and a message.
create_log_entry(msg) ==
    [ticket_id |-> data_dsr.ticketId, task_id |-> data_subtask.task_id,
     subtask_id |-> data_subtask.subtask_id, message |-> msg]

\* log_event that writes nothing at the error level.
log_event_no_error(level, ev, status, dsr, sub) ==
    IF level \in {"info", "warning"}
    THEN <<[kind |-> "log", level |-> level, event |-> ev, status |-> status,
            ticket_id |-> dsr.ticketId, task_id |-> sub.task_id,
            subtask_id |-> sub.subtask_id]>>
    ELSE <<>>

\* log_event with create_log_entry: the entries the call writes, none for
\* a level the logger is not asked about; dsr and sub are the values of the
\* globals data_dsr and data_subtask when the call is made. The message
\* text and the fields that are constant in a ticket are left out.
log_event(level, ev, status, dsr, sub) ==
    IF level \in {"info", "warning", "error"}
    THEN <<[kind |-> "log", level |-> level, event |-> ev, status |-> status,
            ticket_id |-> dsr.ticketId, task_id |-> sub.task_id,
            subtask_id |-> sub.subtask_id]>>
    ELSE <<>>

\* The update request: its URL names the current subtask.
update_request ==
    [kind |-> "request", level |-> "", event |-> "update", status |-> "",
     ticket_id |-> "", task_id |-> "",
     subtask_id |-> data_subtask.subtask_id]

\* The verification query: its filter names the ticket and the task.
query_request ==
    [kind |-> "request", level |-> "", event |-> "query", status |-> "",
     ticket_id |-> data_dsr.ticketId, task_id |-> data_subtask.task_id,
     subtask_id |-> ""]

\* A webhook post: the card formatted from the notification record m.
notification_request(channel, m) ==
    [kind |-> "request", level |-> "", event |-> channel, status |-> "",
     ticket_id |-> m.ticket_id, task_id |-> m.task_id,
     subtask_id |-> m.subtask_id]

\* was_subtask_removed: the level and status of the log event it writes.
was_subtask_removed_log(r) ==
    IF r.kind = "timeout" THEN <<"warning", "timeout">>
    ELSE IF r.kind = "exception" THEN <<"error", "exception">>
    ELSE IF r.status_code # HTTP_OK THEN <<"error", "http_error">>
    ELSE IF body_get(r, 0) = 1 THEN <<"info", "success">>
    ELSE <<"error", "error">>

\* send_*_notification: TRUE when posting raises instead of returning.
post_raises(r) == r.kind # "http"

\* get_secret: what the call does for an outcome of get_secret_value.
get_secret_result(o) ==
    IF o = "ok" THEN "returned"
    ELSE IF o = "ClientError" THEN "RuntimeError"
    ELSE "propagated"

Outcome(s, d) == [success |-> s, detail |-> d]
Last(sq) == sq[Len(sq)]

\* ---------------------------------------------------------------- state
Init ==
    /\ pc = "idle"
    /\ invocation = 0
    /\ event = NoEvent
    /\ data_dsr = EmptyDsr
    /\ data_subtask = EmptySubtask
    /\ idx = 0
    /\ attempt = 0
    /\ check_attempt = 0
    /\ error = ""
    /\ trace = <<>>
    /\ calls = <<>>
    /\ outcomes = <<>>
    /\ message = NoMessage
    /\ secretCalls = <<>>
    /\ teamsPosts = 0
    /\ gchatPosts = 0
    /\ psResult = "none"
    /\ response = NoResponse
    /\ poll_result = NoPoll
    /\ cooperative = TRUE
    /\ emitted = <<>>

\* Variables no step of update_subtask touches.
outer_vars == <<invocation, event, data_dsr, data_subtask, idx, calls,
                message, secretCalls, teamsPosts, gchatPosts>>

\* update_subtask returns (s, d) to process_subtasks.
Return(s, d) ==
    /\ outcomes' = Append(outcomes, Outcome(s, d))
    /\ pc' = "returned"

\* ---------------------------------------------------------------- main
\* main, lines 420-452: the Lambda runtime invokes the handler; the first
\* log event is written, the payload is parsed into the global data_dsr
\* and the secret paths are built from it, or a 400 is returned, or an
\* exception no except clause names leaves main.
main_begin(ev) ==
    /\ pc \in {"idle", "done", "raised"}
    /\ invocation < MaxInvocations
    /\ invocation' = invocation + 1
    /\ event' = ev
    /\ idx' = 0
    /\ attempt' = 0
    /\ check_attempt' = 0
    /\ error' = ""
    /\ trace' = <<>>
    /\ calls' = <<>>
    /\ outcomes' = <<>>
    /\ message' = NoMessage
    /\ secretCalls' = <<>>
    /\ teamsPosts' = 0
    /\ gchatPosts' = 0
    /\ psResult' = "none"
    /\ poll_result' = NoPoll
    /\ cooperative' = TRUE
    /\ UNCHANGED data_subtask
    /\ IF log_raises(data_dsr)
       THEN /\ emitted' = <<>>
            /\ UNCHANGED data_dsr
            /\ response' = Raised
            /\ pc' = "raised"
       ELSE
       LET started == log_event("info", "main", "started",
                                data_dsr, data_subtask)
           res == payload_result(ev)
       IN
       IF res = "raised"
       THEN /\ emitted' = started
            /\ UNCHANGED data_dsr
            /\ response' = Raised
            /\ pc' = "raised"
       ELSE IF res = "invalid"
       THEN /\ emitted' = started \o log_event("error", "main", "error",
                                                data_dsr, data_subtask)
            /\ UNCHANGED data_dsr
            /\ response' = [statusCode |-> 400, dsr_id |-> "",
                            raised |-> FALSE]
            /\ pc' = "done"
       ELSE /\ data_dsr' = json_loads(replace_quotes(ev.data))
            /\ emitted' = started
            /\ IF setup_raises(data_dsr')
               THEN /\ response' = Raised
                    /\ pc' = "raised"
               ELSE /\ response' = NoResponse
                    /\ pc' = "secret_channel"

\* main, lines 454-466: get_secret(secret_path_channel), then
\* get_secret(secret_path_token); a RuntimeError gives the 401 response,
\* anything else get_secret lets through ends the invocation.
get_secret(o) ==
    /\ pc \in {"secret_channel", "secret_token"}
    /\ secretCalls' = Append(secretCalls, o)
    /\ UNCHANGED <<invocation, event, data_subtask, idx, attempt,
                   check_attempt, error, trace, calls, outcomes, message,
                   teamsPosts, gchatPosts, psResult, poll_result,
                   cooperative>>
    /\ emitted' =
         emitted
         \o log_event("info", "collecting_secrets", "started",
                      data_dsr, data_subtask)
         \o (IF get_secret_result(o) = "returned"
             THEN log_event("info", "collecting_secrets", "success",
                            data_dsr, data_subtask)
             ELSE IF get_secret_result(o) = "RuntimeError"
             THEN log_event("error", "collecting_secrets", "error",
                            data_dsr, data_subtask)
             ELSE <<>>)
    /\ IF get_secret_result(o) = "returned"
       THEN IF pc = "secret_channel"
            THEN /\ pc' = "secret_token"
                 /\ UNCHANGED <<data_dsr, response>>
            ELSE /\ pc' = "loop"
                 /\ data_dsr' = [data_dsr EXCEPT !.channels = TRUE,
                                                 !.secrets_header = TRUE]
                 /\ UNCHANGED response
       ELSE IF get_secret_result(o) = "RuntimeError"
       THEN /\ pc' = "done"
            /\ response' = [statusCode |-> 401, dsr_id |-> "",
                            raised |-> FALSE]
            /\ UNCHANGED data_dsr
       ELSE /\ pc' = "raised"
            /\ response' = Raised
            /\ UNCHANGED data_dsr

\* ---------------------------------------------------- process_subtasks
\* process_subtasks, lines 310-315 and 328, with main's lines 468-478: the
\* loop takes the next subtask, makes it the current one and calls
\* update_subtask; when the list is used up it returns True and main
\* answers 200. data_dsr["task_subtask"] (line 310) and data_dsr["ticketId"]
\* (line 475) raise KeyError when the payload had no such key.
process_subtasks_next ==
    /\ pc = "loop"
    /\ UNCHANGED <<invocation, event, data_dsr, check_attempt, outcomes,
                   message, secretCalls, teamsPosts, gchatPosts,
                   cooperative>>
    /\ IF ~data_dsr.has_task_subtask
       THEN /\ psResult' = "raised"
            /\ response' = Raised
            /\ pc' = "raised"
            /\ UNCHANGED <<data_subtask, idx, calls, attempt, error, trace,
                           poll_result, emitted>>
       ELSE IF idx < Len(data_dsr.task_subtask)
       THEN /\ data_subtask' = data_dsr.task_subtask[idx + 1]
            /\ idx' = idx + 1
            /\ calls' = Append(calls, idx + 1)
            /\ attempt' = 0
            /\ error' = ""
            /\ trace' = <<>>
            /\ poll_result' = NoPoll
            /\ emitted' = log_event("info", "update_subtask", "started",
                                    data_dsr, data_subtask')
            /\ pc' = "update"
            /\ UNCHANGED <<psResult, response>>
       ELSE /\ psResult' = "true"
            /\ IF data_dsr.has_ticketId
               THEN /\ response' = [statusCode |-> 200,
                                    dsr_id |-> data_dsr.ticketId,
                                    raised |-> FALSE]
                    /\ pc' = "done"
               ELSE /\ response' = Raised
                    /\ pc' = "raised"
            /\ UNCHANGED <<data_subtask, idx, calls, attempt, error, trace,
                           poll_result, emitted>>

\* update_subtask, lines 239-305: one pass of the outer loop, the update
\* request and what its outcome leads to.
update_subtask_attempt(r) ==
    /\ pc = "update"
    /\ in_range(attempt)
    /\ trace' = Append(trace, IoEvent("update", r, 0))
    /\ UNCHANGED <<outer_vars, psResult, response, poll_result>>
    /\ cooperative' = (cooperative /\ r.kind = "http"
                       /\ r.status_code = 200 /\ r.has_field /\ r.value = 0)
    /\ LET b == update_branch(r) IN
       emitted' =
         emitted
         \o log_event("info", "update_subtask", "started",
                      data_dsr, data_subtask)
         \o <<update_request>>
         \o (IF b = "accepted"
             THEN log_event("info", "subtask_update", "started",
                            data_dsr, data_subtask)
             ELSE IF b = "rejected"
             THEN log_event("error", "subtask_update", "error",
                            data_dsr, data_subtask)
             ELSE log_event("error", "subtask_update", b,
                            data_dsr, data_subtask))
         \o (IF b \in {"http_error", "timeout"} /\ ~in_range(attempt + 1)
             THEN log_event("error", "subtask_update", "failure",
                            data_dsr, data_subtask)
             ELSE <<>>)
    /\ LET b == update_branch(r) IN
       IF b = "accepted"
       THEN /\ pc' = "verify"
            /\ check_attempt' = 0
            /\ UNCHANGED <<attempt, error, outcomes>>
       ELSE IF b = "rejected"
       THEN /\ error' = unexpected_status_error(r)
            /\ Return(FALSE, unexpected_status_error(r))
            /\ UNCHANGED <<attempt, check_attempt>>
       ELSE IF b = "exception"
       THEN /\ Return(FALSE, r.text)
            /\ UNCHANGED <<attempt, check_attempt, error>>
       ELSE /\ error' = IF b = "http_error" THEN http_error_error(r)
                        ELSE error
            /\ attempt' = attempt + 1
            /\ UNCHANGED check_attempt
            /\ IF in_range(attempt + 1)
               THEN /\ pc' = "update"
                    /\ UNCHANGED outcomes
               ELSE Return(FALSE, error')

\* update_subtask, lines 262-285 with was_subtask_removed: the query is
\* sent and what came back is acted on.
verify_poll(r) ==
    /\ cooperative' = (cooperative /\ r.kind = "http"
                       /\ r.status_code = 200 /\ r.rows > 0
                       /\ r.has_field /\ r.value = 1)
    /\ IF query_raises(r)
       THEN /\ trace' = Append(trace, IoEvent("poll", r, 0))
            /\ emitted' = Append(emitted, query_request)
            /\ poll_result' = PollRaised
            /\ pc' = "raised"
            /\ psResult' = "raised"
            /\ response' = Raised
            /\ UNCHANGED <<check_attempt, error, outcomes>>
       ELSE
       LET res == was_subtask_removed(r) IN
       /\ poll_result' = PollReturned(res)
       /\ UNCHANGED <<psResult, response>>
       /\ emitted' =
            emitted
            \o <<query_request>>
            \o log_event(was_subtask_removed_log(r)[1],
                         "was_subtask_removed",
                         was_subtask_removed_log(r)[2],
                         data_dsr, data_subtask)
            \o (IF res[1]
                THEN log_event("info", "subtask_removed", "success",
                               data_dsr, data_subtask)
                ELSE log_event("info", "subtask_not_removed", "retry",
                               data_dsr, data_subtask))
            \o (IF ~res[1] /\ ~in_range(check_attempt + 1)
                THEN log_event("error", "subtask_not_removed", "failure",
                               data_dsr, data_subtask)
                ELSE <<>>)
       /\ IF res[1]
          THEN /\ trace' = Append(trace, IoEvent("poll", r, 0))
               /\ error' = res[2]
               /\ UNCHANGED check_attempt
               /\ Return(TRUE, "")
          ELSE /\ trace' = trace \o <<IoEvent("poll", r, 0),
                                      IoEvent("sleep", r, SLEEP_SECONDS)>>
               /\ check_attempt' = check_attempt + 1
               /\ IF in_range(check_attempt + 1)
                  THEN /\ error' = res[2]
                       /\ pc' = "verify"
                       /\ UNCHANGED outcomes
                  ELSE /\ error' = "Subtask not removed after retries."
                       /\ Return(FALSE,
                                 "Subtask not removed after retries.")

\* update_subtask, lines 261-285: one pass of the verification loop, the
\* call of was_subtask_removed, the sleep after a miss, and the failure
\* once the loop is used up; an exception was_subtask_removed lets through
\* leaves update_subtask, process_subtasks and main: the IndexError of
\* line 200, or the KeyError of data_dsr["ticketId"] at line 179, raised
\* before the query is sent.
update_subtask_verify(r) ==
    /\ pc = "verify"
    /\ in_range(check_attempt)
    /\ UNCHANGED outer_vars
    /\ UNCHANGED attempt
    /\ IF ~data_dsr.has_ticketId
       THEN /\ poll_result' = PollRaised
            /\ pc' = "raised"
            /\ psResult' = "raised"
            /\ response' = Raised
            /\ UNCHANGED <<check_attempt, error, outcomes, trace, emitted,
                           cooperative>>
       ELSE verify_poll(r)

\* process_subtasks, lines 315-323: a success goes on with the next
\* subtask, a failure builds the notification record. update_subtask has
\* returned: its locals are gone and the record of its I/O ends.
process_subtasks_outcome ==
    /\ pc = "returned"
    /\ attempt' = 0
    /\ check_attempt' = 0
    /\ error' = ""
    /\ trace' = <<>>
    /\ poll_result' = NoPoll
    /\ UNCHANGED <<invocation, event, data_dsr, data_subtask, idx, calls,
                   outcomes, secretCalls, teamsPosts, gchatPosts, psResult,
                   response, cooperative>>
    /\ IF Last(outcomes).success
       THEN /\ pc' = "loop"
            /\ UNCHANGED <<message, emitted>>
       ELSE /\ emitted' = emitted \o log_event("error", "subtask_update",
                                                "failed", data_dsr,
                                                data_subtask)
            /\ message' = create_log_entry(Last(outcomes).detail)
            /\ pc' = "teams"

\* process_subtasks line 324, send_teams_notification: one post; an
\* exception of requests.post is caught nowhere and ends the invocation.
send_teams_notification(r) ==
    /\ pc = "teams"
    /\ teamsPosts' = teamsPosts + 1
    /\ UNCHANGED <<invocation, event, data_dsr, data_subtask, idx, attempt,
                   check_attempt, error, trace, calls, outcomes, message,
                   secretCalls, gchatPosts, poll_result, cooperative>>
    /\ emitted' =
         emitted
         \o <<notification_request("teams", message)>>
         \o (IF post_raises(r) THEN <<>>
             ELSE IF r.status_code # TEAMS_OK
             THEN log_event("error", "send_teams_notification", "error",
                            data_dsr, data_subtask)
             ELSE log_event("info", "send_teams_notification", "success",
                            data_dsr, data_subtask))
    /\ IF post_raises(r)
       THEN /\ pc' = "raised"
            /\ psResult' = "raised"
            /\ response' = Raised
       ELSE /\ pc' = "gchat"
            /\ UNCHANGED <<psResult, response>>

\* process_subtasks lines 325-326, send_google_chat_notification, and
\* main's lines 479-488: one post, then False and the 500 response, whose
\* data_dsr["ticketId"] (line 485) raises KeyError without the key.
send_google_chat_notification(r) ==
    /\ pc = "gchat"
    /\ gchatPosts' = gchatPosts + 1
    /\ UNCHANGED <<invocation, event, data_dsr, data_subtask, idx, attempt,
                   check_attempt, error, trace, calls, outcomes, message,
                   secretCalls, teamsPosts, poll_result, cooperative>>
    /\ emitted' =
         emitted
         \o <<notification_request("gchat", message)>>
         \o (IF post_raises(r) THEN <<>>
             ELSE IF r.status_code # GOOGLE_CHAT_OK
             THEN log_event("error", "send_google_chat_notification",
                            "error", data_dsr, data_subtask)
             ELSE log_event("info", "send_google_chat_notification",
                            "success", data_dsr, data_subtask))
    /\ IF post_raises(r)
       THEN /\ pc' = "raised"
            /\ psResult' = "raised"
            /\ response' = Raised
       ELSE /\ psResult' = "false"
            /\ IF data_dsr.has_ticketId
               THEN /\ response' = [statusCode |-> 500,
                                    dsr_id |-> data_dsr.ticketId,
                                    raised |-> FALSE]
                    /\ pc' = "done"
               ELSE /\ response' = Raised
                    /\ pc' = "raised"

Next ==
    \/ \E ev \in Events : main_begin(ev)
    \/ \E o \in SecretOutcomes : get_secret(o)
    \/ process_subtasks_next
    \/ \E r \in UpdateResponses : update_subtask_attempt(r)
    \/ \E r \in QueryResponses : update_subtask_verify(r)
    \/ process_subtasks_outcome
    \/ \E r \in WebhookResponses : send_teams_notification(r)
    \/ \E r \in WebhookResponses : send_google_chat_notification(r)

Spec == Init /\ [][Next]_vars

\* The steps of an invocation under way: each is the return of one I/O
\* call (or none) and the code that follows it. The runtime need not
\* invoke main again, so main_begin is not among them.
Step ==
    \/ \E o \in SecretOutcomes : get_secret(o)
    \/ process_subtasks_next
    \/ \E r \in UpdateResponses : update_subtask_attempt(r)
    \/ \E r \in QueryResponses : update_subtask_verify(r)
    \/ process_subtasks_outcome
    \/ \E r \in WebhookResponses : send_teams_notification(r)
    \/ \E r \in WebhookResponses : send_google_chat_notification(r)

\* Every I/O call eventually returns: an invocation under way keeps
\* taking steps.
LiveSpec == Init /\ [][Next]_vars /\ WF_vars(Step)

\* ------------------------------------------------------------ properties
\* The requests of the current update_subtask call, by kind, in order.
Updates == SelectSeq(trace, LAMBDA e : e.op = "update")
Polls == SelectSeq(trace, LAMBDA e : e.op = "poll")
Sleeps == SelectSeq(trace, LAMBDA e : e.op = "sleep")

\* The positions in trace of the verification polls.
PollAt(k) ==
    CHOOSE i \in 1..Len(trace) :
        /\ trace[i].op = "poll"
        /\ Cardinality({j \in 1..i : trace[j].op = "poll"}) = k

\* update_subtask has returned from its latest call / is still running.
CallReturned == Len(calls) > 0 /\ Len(outcomes) = Len(calls)
CallRunning == Len(outcomes) < Len(calls)

\* An update response with HTTP 200 and body status 0.
IsAccepted(r) ==
    r.kind = "http" /\ r.status_code = 200 /\ r.has_field /\ r.value = 0
\* An update response with HTTP 200 and a body status that is not 0.
IsRefused(r) ==
    r.kind = "http" /\ r.status_code = 200 /\ ~(r.has_field /\ r.value = 0)
\* An update attempt that ended in a timeout or a non-2xx status.
IsTransient(r) ==
    \/ r.kind = "timeout"
    \/ r.kind = "http" /\ (r.status_code < 200 \/ r.status_code > 299)
\* A query response reporting total_subtasks = n.
Reports(r, n) ==
    r.kind = "http" /\ r.status_code = 200 /\ r.has_field /\ r.value = n
ReportsSeveral(r) ==
    r.kind = "http" /\ r.status_code = 200 /\ r.has_field /\ r.value > 1

\* s holds sub as a substring.
Contains(s, sub) ==
    \E i \in 1..(Len(s) - Len(sub) + 1) : SubSeq(s, i, i + Len(sub) - 1) = sub

\* C1: when the first update request is answered HTTP 200 with body
\* status 0 and the first verification poll reports total_subtasks = 1,
\* update_subtask has returned (True, "") after exactly one update request
\* and one poll, without sleeping and without retrying.
C1_FirstPollConfirms ==
    (/\ Len(Updates) >= 1 /\ IsAccepted(Updates[1].resp)
     /\ Len(Polls) >= 1 /\ Reports(Polls[1].resp, 1))
    => /\ Len(Updates) = 1
       /\ Len(Polls) = 1
       /\ Len(Sleeps) = 0
       /\ CallReturned
       /\ Last(outcomes) = Outcome(TRUE, "")

C1_Witness ==
    /\ pc = "returned"
    /\ Len(Updates) = 1 /\ IsAccepted(Updates[1].resp)
    /\ Len(Polls) = 1 /\ Reports(Polls[1].resp, 1)
    /\ Last(outcomes).success

\* C2: when the update was accepted and every verification poll reports
\* total_subtasks > 1, update_subtask does not return before RETRIES polls,
\* makes exactly RETRIES polls, sleeps once, for 5 units, between two
\* consecutive polls, and returns (False, "Subtask not removed after
\* retries.").
C2_VerificationExhausted ==
    (/\ Len(Updates) >= 1 /\ IsAccepted(Last(Updates).resp)
     /\ \A k \in 1..Len(Polls) : ReportsSeveral(Polls[k].resp))
    => /\ Len(Polls) <= RETRIES
       /\ CallReturned <=> Len(Polls) = RETRIES
       /\ \A k \in 1..(Len(Polls) - 1) :
            /\ PollAt(k + 1) = PollAt(k) + 2
            /\ trace[PollAt(k) + 1].op = "sleep"
            /\ trace[PollAt(k) + 1].secs = 5
       /\ CallReturned =>
            Last(outcomes) =
                Outcome(FALSE, "Subtask not removed after retries.")

C2_Witness ==
    /\ pc = "returned"
    /\ IsAccepted(Last(Updates).resp)
    /\ Len(Polls) = RETRIES
    /\ \A k \in 1..Len(Polls) : ReportsSeveral(Polls[k].resp)
    /\ ~Last(outcomes).success

\* C3: an update response with HTTP 200 and a body status other than 0 is
\* the last request of the call: update_subtask has returned failure with
\* a detail that contains the status as the body gave it, no verification
\* poll was made and no update request follows.
C3_RefusedIsFinal ==
    \A i \in 1..Len(trace) :
        (trace[i].op = "update" /\ IsRefused(trace[i].resp))
        => /\ i = Len(trace)
           /\ Len(Polls) = 0
           /\ CallReturned
           /\ ~Last(outcomes).success
           /\ Contains(Last(outcomes).detail,
                       IF trace[i].resp.has_field
                       THEN ToString(trace[i].resp.value) ELSE "None")

C3_Witness ==
    /\ pc = "returned"
    /\ Len(trace) = 2
    /\ IsRefused(trace[2].resp) /\ trace[2].resp.value = 7
    /\ Contains(Last(outcomes).detail, "7")

\* C4: while every update attempt of the call ended in a timeout or a
\* non-2xx status, no verification poll is made, at most RETRIES update
\* requests are sent, and update_subtask returns, with failure, exactly
\* when RETRIES requests have been sent.
C4_UpdateRetriesExhausted ==
    (/\ Len(Updates) >= 1
     /\ \A k \in 1..Len(Updates) : IsTransient(Updates[k].resp))
    => /\ Len(Polls) = 0
       /\ Len(Updates) <= RETRIES
       /\ CallReturned <=> Len(Updates) = RETRIES
       /\ CallReturned => ~Last(outcomes).success

C4_Witness ==
    /\ pc = "returned"
    /\ Len(Updates) = RETRIES
    /\ \A k \in 1..Len(Updates) : IsTransient(Updates[k].resp)
    /\ \E k \in 1..Len(Updates) : Updates[k].resp.kind = "timeout"
    /\ \E k \in 1..Len(Updates) : Updates[k].resp.kind = "http"
    /\ ~Last(outcomes).success

\* C5: an update request that raised a non-timeout transport exception is
\* the last request of the call: update_subtask has returned failure with
\* the exception text as detail, and no update attempt and no verification
\* poll follows it (on the first attempt: exactly one request).
C5_ExceptionIsFinal ==
    \A i \in 1..Len(trace) :
        (trace[i].op = "update" /\ trace[i].resp.kind = "exception")
        => /\ i = Len(trace)
           /\ Len(Polls) = 0
           /\ CallReturned
           /\ Last(outcomes) = Outcome(FALSE, trace[i].resp.text)

C5_Witness ==
    /\ pc = "returned"
    /\ Len(trace) = 1
    /\ trace[1].op = "update" /\ trace[1].resp.kind = "exception"
    /\ ~Last(outcomes).success

\* The invocation of main has ended: it returned a response or raised.
Ended == invocation > 0 /\ pc \in {"done", "raised"}
\* Some / every subtask resolution of this invocation failed / succeeded.
SomeFailed == \E k \in 1..Len(outcomes) : ~outcomes[k].success
AllResolved ==
    /\ Len(outcomes) = Len(data_dsr.task_subtask)
    /\ \A k \in 1..Len(outcomes) : outcomes[k].success
\* The payload has no data field, or its text does not parse once every
\* single quote is a double quote.
Malformed(ev) ==
    /\ ev.kind = "dict"
    /\ \/ ~ev.has_data
       \/ /\ ev.data_is_text
          /\ (ev.data.apostrophe = "plain" \/ ~ev.data.complete)
\* The payload is a text that parses once every single quote is a double
\* quote.
Parsable(ev) ==
    /\ ev.kind = "dict" /\ ev.has_data /\ ev.data_is_text
    /\ ev.data.apostrophe # "plain" /\ ev.data.complete
\* The payload parses to an object that has every key of a ticket.
WellFormed(ev) ==
    Parsable(ev) /\ ev.data.value = "object" /\ ev.data.missing = "none"
\* The ticket id log entries and records carry: safe_get's default when
\* the payload has none.
CurrentTicket ==
    IF event.data.missing = "ticketId" THEN "unknown"
    ELSE event.data.ticketId
\* Both secrets were retrieved.
SecretsRetrieved == secretCalls = <<"ok", "ok">>

\* C6: process_subtasks calls update_subtask for the subtasks in list
\* order, each at most once; when subtask k is the first to fail, the
\* subtasks before k succeeded, update_subtask is called for none after k,
\* and process_subtasks returns False.
C6_StopAtFirstFailure ==
    /\ calls = [i \in 1..Len(calls) |-> i]
    /\ \A k \in 1..Len(outcomes) :
        ~outcomes[k].success
        => /\ \A j \in 1..(k - 1) : outcomes[j].success
           /\ Len(calls) = k
           /\ Ended => psResult = "false"

\* C7: a webhook is posted to only after a subtask failed; an invocation
\* in which a subtask failed ends with exactly one post to Teams and one to
\* Google Chat; an invocation in which every subtask succeeded ends with
\* process_subtasks returning True and no post.
C7_NotifyIffFailure ==
    /\ (teamsPosts > 0 \/ gchatPosts > 0) => SomeFailed
    /\ (Ended /\ SomeFailed) => (teamsPosts = 1 /\ gchatPosts = 1)
    /\ (Ended /\ SecretsRetrieved /\ AllResolved)
       => (psResult = "true" /\ teamsPosts = 0 /\ gchatPosts = 0)

\* C8: an invocation with a parsable payload and both secrets retrieved
\* ends with status code 200 exactly when every subtask was resolved and
\* with 500 exactly when a subtask failed, the body carrying the ticket id.
C8_StatusCode ==
    (Ended /\ Parsable(event) /\ SecretsRetrieved)
    => /\ response.statusCode = 200 <=> AllResolved
       /\ response.statusCode = 500 <=> SomeFailed
       /\ response.dsr_id = event.data.ticketId

\* C9: an invocation with a malformed payload has ended with the 400
\* response, without a secret retrieval, an update request, a verification
\* poll or a webhook post.
C9_MalformedPayload ==
    (invocation > 0 /\ Malformed(event))
    => /\ pc = "done"
       /\ response.statusCode = 400
       /\ secretCalls = <<>>
       /\ calls = <<>> /\ trace = <<>>
       /\ teamsPosts = 0 /\ gchatPosts = 0

\* C10: when the retrieval of one of the two secrets failed, main has
\* returned the 401 response, and no update request, verification poll or
\* webhook post happened.
C10_SecretFailureGives401 ==
    (\E i \in 1..Len(secretCalls) : secretCalls[i] # "ok")
    => /\ pc = "done"
       /\ response.statusCode = 401
       /\ calls = <<>> /\ trace = <<>>
       /\ teamsPosts = 0 /\ gchatPosts = 0

\* An update response with a status code in the 2xx range.
Is2xx(r) == r.kind = "http" /\ r.status_code >= 200 /\ r.status_code <= 299

\* C11: for every update response with a 2xx status code the body status
\* decides: status 0 starts the verification (the next request is a poll,
\* the update is not sent again), any other status ends the call with the
\* failure carrying that status; a 2xx response is never followed by
\* another update request.
C11_Every2xxInspected ==
    \A i \in 1..Len(trace) :
        (trace[i].op = "update" /\ Is2xx(trace[i].resp))
        => /\ \A j \in (i + 1)..Len(trace) : trace[j].op # "update"
           /\ (trace[i].resp.has_field /\ trace[i].resp.value = 0)
              => (pc = "verify" \/ Len(Polls) >= 1)
           /\ ~(trace[i].resp.has_field /\ trace[i].resp.value = 0)
              => /\ i = Len(trace)
                 /\ CallReturned
                 /\ ~Last(outcomes).success

\* C12: a verification poll that raised a non-timeout transport exception
\* is the last event of the call: update_subtask has returned failure, with
\* no sleep and no poll after it; a poll that timed out does not end the
\* call before the verification loop is used up.
C12_PollExceptionIsFatal ==
    /\ \A i \in 1..Len(trace) :
        (trace[i].op = "poll" /\ trace[i].resp.kind = "exception")
        => /\ i = Len(trace)
           /\ CallReturned
           /\ ~Last(outcomes).success
    /\ (/\ Len(Polls) >= 1
        /\ Len(Polls) < RETRIES
        /\ Last(Polls).resp.kind = "timeout")
       => pc = "verify"

\* C13: once a webhook post to one channel was attempted, whatever came of
\* it, the invocation ends with exactly one post attempted to the other
\* channel too, process_subtasks returning False and main answering 500.
C13_ChannelsIndependent ==
    (Ended /\ (teamsPosts > 0 \/ gchatPosts > 0))
    => /\ teamsPosts = 1
       /\ gchatPosts = 1
       /\ psResult = "false"
       /\ response.statusCode = 500
       /\ ~response.raised

\* C14: every call of was_subtask_removed made one query and returned a
\* (bool, detail) pair: True with an empty detail exactly when the answer
\* is HTTP 200 and the first data row's total_subtasks is 1 (a missing
\* total_subtasks counting as 0); False with the response text for another
\* count or a non-200 status, False with "Processing timeout" on a timeout,
\* False with the exception text on another transport exception.
C14_VerificationClient ==
    Len(Polls) >= 1
    => LET r == Last(Polls).resp IN
       /\ poll_result.state = "returned"
       /\ Len(Polls) = check_attempt + (IF poll_result.ok THEN 1 ELSE 0)
       /\ poll_result.ok <=>
            (/\ r.kind = "http" /\ r.status_code = 200
             /\ (IF r.has_field THEN r.value ELSE 0) = 1)
       /\ poll_result.ok => poll_result.detail = ""
       /\ (~poll_result.ok /\ r.kind = "http")
          => poll_result.detail = r.text
       /\ r.kind = "timeout" => poll_result.detail = "Processing timeout"
       /\ r.kind = "exception" => poll_result.detail = r.text

\* C15: two invocations of main with identical inputs, one after the
\* other in the same process, each with both secrets retrieved and a
\* platform that accepts every update and confirms every removal on the
\* first poll, come to the same outcome for every subtask and the same
\* response, with status 200: whatever the invocations before it left
\* behind, the result of such an invocation is a function of its input
\* alone, every subtask of the payload resolved, in order.
C15_SuccessPathDeterministic ==
    (Ended /\ WellFormed(event) /\ SecretsRetrieved /\ cooperative)
    => /\ calls = [k \in 1..event.data.n |-> k]
       /\ outcomes = [k \in 1..event.data.n |-> Outcome(TRUE, "")]
       /\ psResult = "true"
       /\ response = [statusCode |-> 200,
                      dsr_id |-> event.data.ticketId, raised |-> FALSE]
\* A second invocation in the process that resolved a full list so.
C15_Witness ==
    /\ invocation = 2 /\ Ended /\ WellFormed(event) /\ SecretsRetrieved
    /\ cooperative
    /\ event.data.n = MaxSubtasks
    /\ Len(outcomes) = MaxSubtasks
    /\ response.statusCode = 200

\* The subtask the latest update_subtask call of this invocation is for.
CurrentSubtask == SubtaskOf(event.data.ticketId, Last(calls))
\* An error-level log event carrying the ids of that subtask and its ticket.
IsErrorLog(e) ==
    /\ e.kind = "log" /\ e.level = "error"
    /\ e.ticket_id = CurrentTicket
    /\ e.task_id = CurrentSubtask.task_id
    /\ e.subtask_id = CurrentSubtask.subtask_id
IsNotification(e) == e.kind = "request" /\ e.event \in {"teams", "gchat"}

\* C16: every notification dispatch is preceded by an error-level log
\* event carrying the failing ticket, task and subtask ids: when
\* update_subtask has returned a failure it has written one itself, and
\* one is in the log before the first channel is contacted.
C16_ErrorLoggedBeforeNotify ==
    /\ (CallReturned /\ ~Last(outcomes).success)
       => \E i \in 1..Len(emitted) :
            /\ IsErrorLog(emitted[i])
            /\ emitted[i].event \in {"subtask_update", "subtask_not_removed"}
            /\ emitted[i].status # "failed"
    /\ \A j \in 1..Len(emitted) :
         IsNotification(emitted[j])
         => \E i \in 1..(j - 1) : IsErrorLog(emitted[i])
    /\ (teamsPosts > 0 \/ gchatPosts > 0)
       => \E j \in 1..Len(emitted) : IsNotification(emitted[j])
\* Every update attempt timed out and both channels were contacted.
C16_Witness ==
    /\ pc = "done" /\ teamsPosts = 1 /\ gchatPosts = 1
    /\ Cardinality({j \in 1..Len(emitted) :
                      /\ emitted[j].event = "subtask_update"
                      /\ emitted[j].status = "timeout"}) = RETRIES
    /\ \E j \in 1..Len(emitted) : IsNotification(emitted[j])

\* What an entry of emitted carries of subtask cur and ticket t: a log
\* event and a notification all three ids, an update request the subtask
\* id, a verification query the ticket and task ids.
CarriesIds(e, t, cur) ==
    /\ (e.kind = "log" \/ e.event \in {"query", "teams", "gchat"})
       => /\ e.ticket_id = t
          /\ e.task_id = cur.task_id
    /\ (e.kind = "log" \/ e.event \in {"update", "teams", "gchat"})
       => e.subtask_id = cur.subtask_id
\* From the moment process_subtasks takes subtask i, the cursor, everything
\* written or sent and the notification record carry subtask i's ids.
IdsOfCurrentSubtask ==
    Len(calls) > 0
    => LET cur == CurrentSubtask
           t == CurrentTicket
       IN /\ data_subtask = cur
          /\ \A j \in 1..Len(emitted) : CarriesIds(emitted[j], t, cur)
          /\ message # NoMessage
             => /\ message.ticket_id = t
                /\ message.task_id = cur.task_id
                /\ message.subtask_id = cur.subtask_id

\* C17: data_subtask changes only in the step in which process_subtasks
\* begins a subtask, where it becomes that subtask; and throughout the
\* resolution of subtask i every update request, verification query, log
\* entry and the notification record carry subtask i's subtask_id and
\* task_id and the current ticket's id.
C17_CursorAndIds ==
    /\ []IdsOfCurrentSubtask
    /\ [][data_subtask' # data_subtask
          => /\ pc = "loop" /\ pc' = "update"
             /\ idx' = idx + 1
             /\ data_subtask' = data_dsr.task_subtask[idx']]_vars
\* The second subtask of a ticket failed after a verification query, in a
\* process whose earlier invocation worked on another ticket's subtask,
\* and both channels were sent its record.
C17_Witness ==
    /\ invocation = 2 /\ pc = "done" /\ Len(calls) = 2
    /\ ~Last(outcomes).success
    /\ emitted[1].ticket_id = CurrentTicket
    /\ \E j \in 1..Len(emitted) : emitted[j].event = "query"
    /\ \E j \in 1..Len(emitted) : emitted[j].event = "gchat"
    /\ message # NoMessage

\* main is not running: never invoked, returned or left by an exception.
Finished == pc \in {"idle", "done", "raised"}

\* The I/O of the update_subtask call under way stays within RETRIES.
WithinRetries ==
    /\ Len(Updates) <= RETRIES
    /\ Len(Polls) <= RETRIES
    /\ Len(Sleeps) <= RETRIES

\* C18: every invocation of main that is under way eventually finishes,
\* and for each subtask update_subtask issues at most RETRIES update
\* requests, at most RETRIES verification polls and at most RETRIES sleeps.
C18_Terminates ==
    /\ []WithinRetries
    /\ (~Finished ~> Finished)
\* An invocation that finished after the last update attempt was accepted
\* and every poll of the verification loop missed.
C18_Witness ==
    /\ pc = "done" /\ invocation > 0
    /\ Cardinality({j \in 1..Len(emitted) :
                      emitted[j].event = "update"}) = RETRIES
    /\ Cardinality({j \in 1..Len(emitted) :
                      emitted[j].event = "query"}) = RETRIES
    /\ Cardinality({j \in 1..Len(emitted) :
                      emitted[j].status = "retry"}) = RETRIES

\* C19: once an update request has been accepted (HTTP 200, status 0),
\* update_subtask sends no other update request for the subtask, and
\* whatever the verification polls come to the call stays in the
\* verification phase until it ends there with success or with the
\* verification-exhausted failure.
C19_NoUpdateAfterAccepted ==
    \A i \in 1..Len(trace) :
        (trace[i].op = "update" /\ IsAccepted(trace[i].resp))
        => /\ \A j \in (i + 1)..Len(trace) : trace[j].op # "update"
           /\ \/ pc = "verify"
              \/ /\ pc = "returned"
                 /\ Last(outcomes) \in
                      {Outcome(TRUE, ""),
                       Outcome(FALSE, "Subtask not removed after retries.")}

\* The update attempts of the call are used up: RETRIES requests, each
\* timed out or answered with a status code other than 200.
UpdatesExhausted ==
    /\ pc = "returned"
    /\ Len(Updates) = RETRIES
    /\ \A i \in 1..RETRIES :
         \/ Updates[i].resp.kind = "timeout"
         \/ Updates[i].resp.kind = "http" /\ Updates[i].resp.status_code # 200
\* The message of the most recent non-200 response among the attempts, the
\* empty string when every attempt timed out.
MostRecentHttpError ==
    LET H == {i \in 1..Len(Updates) : Updates[i].resp.kind = "http"} IN
    IF H = {} THEN ""
    ELSE LET r == Updates[CHOOSE i \in H : \A k \in H : k <= i].resp IN
         "Error updating subtask. Status code: " \o ToString(r.status_code)
         \o ". Response: " \o r.text
\* Every update attempt logged for the current subtask was a timeout.
AllAttemptsTimedOut ==
    /\ Cardinality({j \in 1..Len(emitted) :
                      emitted[j].event = "update"}) = RETRIES
    /\ Cardinality({j \in 1..Len(emitted) :
                      /\ emitted[j].event = "subtask_update"
                      /\ emitted[j].status = "timeout"}) = RETRIES

\* C20: when the update retries are exhausted, the detail update_subtask
\* returns is the message of the most recent non-200 response of any
\* attempt, even if later attempts timed out, and the empty string if every
\* attempt timed out; the notification record carries that detail as its
\* message, so after RETRIES timeouts it is sent with an empty message.
C20_ExhaustedDetail ==
    /\ UpdatesExhausted
       => Last(outcomes) = Outcome(FALSE, MostRecentHttpError)
    /\ message # NoMessage => message.message = Last(outcomes).detail
    /\ (AllAttemptsTimedOut /\ (teamsPosts > 0 \/ gchatPosts > 0))
       => /\ message # NoMessage
          /\ message.message = ""
\* A non-200 answer to the first attempt, then timeouts.
C20_Witness ==
    /\ UpdatesExhausted
    /\ Updates[1].resp.kind = "http"
    /\ \A i \in 2..RETRIES : Updates[i].resp.kind = "timeout"
    /\ Last(outcomes).detail # ""

====
